---- MODULE Spec2Model ----
(***************************************************************************)
(* InfoNest access control: the Firestore security rules (the rule        *)
(* engine policy) and the client-side auth context (the session           *)
(* permission cache).                                                      *)
(***************************************************************************)
EXTENDS Integers, Sequences, FiniteSets, TLC

VARIABLES
  db,              \* the Firestore documents, by collection and id
  last,            \* the request the rules granted last
  mounted,         \* AuthProvider's effects have run
  authReady,       \* the auth-state listener has been called at least once
  signedOut,       \* the listener's latest call was for "no user"
  user,            \* AuthProvider state: user
  userProfile,     \* AuthProvider state: userProfile
  permissions,     \* AuthProvider state: permissions
  loading,         \* AuthProvider state: loading
  profileLoading,  \* AuthProvider state: profileLoading
  storage,         \* localStorage: the three cache keys
  loads,           \* the loadUserProfile calls in flight
  snapDue,         \* a snapshot of users/{user.uid} is due to the subscription
  now,             \* Date.now(), in minutes
  srv,             \* AdminDashboard: the version of each query's result
  subs,            \* AdminDashboard: the live onSnapshot subscriptions
  dashMounted,     \* AdminDashboard: the data-loading effect is active
  dashboardData,   \* AdminDashboard state: dashboardData
  dashLoading,     \* AdminDashboard state: loading
  dataCache,       \* DataCache: the entry under 'adminDashboard_data'
  batches,         \* BatchProcessor.batches: the batch object under the key
  heap,            \* BatchProcessor: the batch objects created so far
  timers,          \* BatchProcessor: the pending process timers
  timerBatch,      \* BatchProcessor: the batch object each timer closes over
  running,         \* BatchProcessor: the batch whose processor call is running
  calls,           \* BatchProcessor: the item lists passed to processors
  added            \* BatchProcessor: the number of addToBatch calls so far

rulesVars == <<db, last>>
authVars ==
  <<mounted, authReady, signedOut, user, userProfile, permissions, loading,
    profileLoading, storage, loads, snapDue, now>>
dashVars == <<srv, subs, dashMounted, dashboardData, dashLoading, dataCache>>
batchVars == <<batches, heap, timers, timerBatch, running, calls, added>>
utilVars == <<dashVars, batchVars>>
vars == <<db, last, authVars, utilVars>>

(***************************************************************************)
(* Bounds of the model.                                                    *)
(***************************************************************************)
\* At most this many documents exist at once outside the users collection.
MaxDocs == 1
\* At most this many loadUserProfile calls are in flight at once.
MaxLoads == 2
\* Each query result of the dashboard changes at most this many times.
MaxVer == 1
\* At most this many dashboard subscriptions are live at once.
MaxSubs == 5
\* At most this many addToBatch calls are made.
MaxAdds == 4

(***************************************************************************)
(* Values.                                                                 *)
(***************************************************************************)
Uids == {"U1", "U2"}
\* request.auth == null
NoAuth == "unauthenticated"
Callers == Uids \cup {NoAuth}

\* user == null, auth.currentUser == null
NoUser == "null"
\* null, for the profile, the permissions and the entries of localStorage
Null == [null |-> TRUE]
\* localStorage with none of the three cache keys
NoItem == <<>>
EmptyStorage == [profile |-> Null, permissions |-> Null, updated |-> NoItem]

\* resource == null / request.resource == null / a document that does not exist
NoDoc == [absent |-> TRUE]
\* a document holding none of the fields the rules look at
NoFields == [f \in {} |-> ""]

Roles == {"user", "infowriter", "admin"}
Statuses == {"draft", "published"}

Collections ==
  {"users", "articles", "writerRequests", "savedArticles", "notifications", "userActivity"}

\* The characters of the strings the rules slice and index.
Chars(s) ==
  CASE s = "U1" -> <<"U", "1">>
    [] s = "U2" -> <<"U", "2">>
    [] s = "U1_A1" -> <<"U", "1", "_", "A", "1">>
    [] s = "A1" -> <<"A", "1">>
    [] s = "W1" -> <<"W", "1">>
    [] s = "N1" -> <<"N", "1">>
    [] s = "X1" -> <<"X", "1">>

\* The document ids of each collection.
Ids(c) ==
  CASE c = "users" -> Uids
    [] c = "articles" -> {"A1"}
    [] c = "writerRequests" -> {"W1"}
    [] c = "savedArticles" -> {"U1_A1"}
    [] c = "notifications" -> {"N1"}
    [] c = "userActivity" -> {"X1"}

\* The document contents of each collection (the fields the rules read).
UserDocs == {NoFields} \cup [role : Roles]
ArticleDocs ==
  {NoFields} \cup [authorId : Uids] \cup [status : Statuses]
    \cup [authorId : Uids, status : Statuses]
OwnedDocs == {NoFields} \cup [userId : Uids]

Docs(c) ==
  CASE c = "users" -> UserDocs
    [] c = "articles" -> ArticleDocs
    [] OTHER -> OwnedDocs

(***************************************************************************)
(* Rule conditions evaluate to true, false or an error; an allow statement *)
(* grants only when its condition is true.                                 *)
(***************************************************************************)
B3(b) == IF b THEN "T" ELSE "F"

And3(a, b) ==
  IF a = "F" \/ b = "F" THEN "F"
  ELSE IF a = "E" \/ b = "E" THEN "E"
  ELSE "T"

Or3(a, b) ==
  IF a = "T" \/ b = "T" THEN "T"
  ELSE IF a = "E" \/ b = "E" THEN "E"
  ELSE "F"

Not3(a) == IF a = "E" THEN "E" ELSE B3(a = "F")

\* request.auth != null
Authed(auth) == B3(auth # NoAuth)

\* doc.data.f == v, an error when doc is null or has no field f
FieldEq(doc, f, v) ==
  IF doc = NoDoc \/ f \notin DOMAIN doc THEN "E" ELSE B3(doc[f] = v)

\* request.auth.uid == doc.data.f
UidIs(auth, doc, f) ==
  IF auth = NoAuth THEN "E" ELSE FieldEq(doc, f, auth)

\* get(/databases/$(database)/documents/users/$(request.auth.uid))
GetUser(users, auth) == IF auth = NoAuth THEN NoDoc ELSE users[auth]

\* exists(/databases/$(database)/documents/users/$(request.auth.uid))
UserExists(users, auth) ==
  IF auth = NoAuth THEN "E" ELSE B3(users[auth] # NoDoc)

\* get(.../users/$(request.auth.uid)).data.role == r
RoleIs(users, auth, r) == FieldEq(GetUser(users, auth), "role", r)

\* get(.../users/$(request.auth.uid)).data.role in rs
RoleIn(users, auth, rs) ==
  LET u == GetUser(users, auth)
  IN  IF u = NoDoc \/ "role" \notin DOMAIN u THEN "E" ELSE B3(u.role \in rs)

IsRead(op) == op \in {"get", "list"}
IsWrite(op) == op \in {"create", "update", "delete"}
Ops == {"get", "list", "create", "update", "delete"}

\* 'f' in doc.data
HasField(doc, f) == IF doc = NoDoc THEN "E" ELSE B3(f \in DOMAIN doc)

\* a.data.f == b.data.f
FieldsEq(a, b, f) ==
  IF a = NoDoc \/ b = NoDoc \/ f \notin DOMAIN a \/ f \notin DOMAIN b
  THEN "E"
  ELSE B3(a[f] = b[f])

\* The caller's role as the rules read it; "none" when there is no caller,
\* no users document for the caller, or no role field in it.
StoredRole(users, auth) ==
  LET u == GetUser(users, auth)
  IN  IF u = NoDoc \/ "role" \notin DOMAIN u THEN "none" ELSE u.role

(***************************************************************************)
(* match /articles/{articleId}                                             *)
(***************************************************************************)
\* Mutant: any article that has a status is publicly readable.
ArticlesReadPublished_AnyStatus(resource) == HasField(resource, "status")

ArticlesReadPublished(resource) == FieldEq(resource, "status", "published")

\* Mutant: every authenticated caller reads every article.
ArticlesReadOwn_AnyAuthed(auth, resource, users) == Authed(auth)

ArticlesReadOwn(auth, resource, users) ==
  And3(Authed(auth),
       Or3(UidIs(auth, resource, "authorId"), RoleIs(users, auth, "admin")))

\* Mutant: an admin may create an article for any authorId.
ArticlesCreate_AdminAnyAuthor(auth, reqres, users) ==
  And3(Authed(auth),
       Or3(RoleIs(users, auth, "admin"),
           And3(RoleIn(users, auth, {"infowriter", "admin"}),
                UidIs(auth, reqres, "authorId"))))

ArticlesCreate(auth, reqres, users) ==
  And3(And3(Authed(auth), RoleIn(users, auth, {"infowriter", "admin"})),
       UidIs(auth, reqres, "authorId"))

\* Mutant: only the author may update, the admin override is lost.
ArticlesUpdate_AuthorOnly(auth, resource, users) ==
  And3(Authed(auth), UidIs(auth, resource, "authorId"))

ArticlesUpdate(auth, resource, users) ==
  And3(Authed(auth),
       Or3(UidIs(auth, resource, "authorId"), RoleIs(users, auth, "admin")))

ArticlesDelete(auth, resource, users) ==
  And3(Authed(auth),
       Or3(UidIs(auth, resource, "authorId"), RoleIs(users, auth, "admin")))

ArticlesAllow(op, auth, resource, reqres, users) ==
  \/ IsRead(op) /\ ArticlesReadPublished(resource) = "T"
  \/ IsRead(op) /\ ArticlesReadOwn(auth, resource, users) = "T"
  \/ op = "create" /\ ArticlesCreate(auth, reqres, users) = "T"
  \/ op = "update" /\ ArticlesUpdate(auth, resource, users) = "T"
  \/ op = "delete" /\ ArticlesDelete(auth, resource, users) = "T"

(***************************************************************************)
(* match /writerRequests/{requestId}                                       *)
(***************************************************************************)
WriterRequestsRead(auth, resource, users) ==
  And3(Authed(auth),
       Or3(UidIs(auth, resource, "userId"), RoleIs(users, auth, "admin")))

WriterRequestsCreate(auth, reqres) ==
  And3(Authed(auth), UidIs(auth, reqres, "userId"))

\* Mutant: the update rule without the admin check.
WriterRequestsUpdate_AnyAuthed(auth, users) == Authed(auth)

WriterRequestsUpdate(auth, users) ==
  And3(Authed(auth), RoleIs(users, auth, "admin"))

WriterRequestsAllow(op, auth, resource, reqres, users) ==
  \/ IsRead(op) /\ WriterRequestsRead(auth, resource, users) = "T"
  \/ op = "create" /\ WriterRequestsCreate(auth, reqres) = "T"
  \/ op = "update" /\ WriterRequestsUpdate(auth, users) = "T"

(***************************************************************************)
(* match /users/{userId}                                                   *)
(***************************************************************************)
UsersRead(auth) == Authed(auth)

UsersCreate(auth, userId) == And3(Authed(auth), B3(auth = userId))

\* Mutant: the self-update rule does not compare the role.
UsersUpdateSelf_NoRoleCheck(auth, userId, resource, reqres) ==
  And3(Authed(auth), B3(auth = userId))

UsersUpdateSelf(auth, userId, resource, reqres) ==
  And3(And3(Authed(auth), B3(auth = userId)),
       Or3(Not3(HasField(reqres, "role")), FieldsEq(reqres, resource, "role")))

\* Mutant: the admin rule is satisfied as soon as some user is an admin.
UsersUpdateAdmin_AnyAdminExists(auth, users) ==
  And3(Authed(auth), B3(\E u \in Uids : StoredRole(users, u) = "admin"))

UsersUpdateAdmin(auth, users) ==
  And3(And3(Authed(auth), UserExists(users, auth)), RoleIs(users, auth, "admin"))

UsersAllow(op, auth, userId, resource, reqres, users) ==
  \/ IsRead(op) /\ UsersRead(auth) = "T"
  \/ op = "create" /\ UsersCreate(auth, userId) = "T"
  \/ op = "update" /\ UsersUpdateSelf(auth, userId, resource, reqres) = "T"
  \/ op = "update" /\ UsersUpdateAdmin(auth, users) = "T"

(***************************************************************************)
(* match /savedArticles/{savedArticleId}                                   *)
(***************************************************************************)
\* savedArticleId.size() > uid.size() && savedArticleId[0:uid.size()] == uid
\*   && savedArticleId[uid.size()] == '_'
IdHasUidPrefix(savedArticleId, auth) ==
  IF auth = NoAuth THEN "E"
  ELSE LET s == Chars(savedArticleId)
           u == Chars(auth)
           n == Len(u)
       IN  And3(B3(Len(s) > n),
                And3(IF n <= Len(s) THEN B3(SubSeq(s, 1, n) = u) ELSE "E",
                     IF n < Len(s) THEN B3(s[n + 1] = "_") ELSE "E"))

\* Mutant: ownership is read from the userId fields only, not from the id.
SavedArticlesOwner_FieldsOnly(auth, savedArticleId, resource, reqres) ==
  And3(Authed(auth),
       Or3(And3(B3(resource # NoDoc), UidIs(auth, resource, "userId")),
           And3(B3(reqres # NoDoc), UidIs(auth, reqres, "userId"))))

SavedArticlesOwner(auth, savedArticleId, resource, reqres) ==
  And3(Authed(auth),
       Or3(IdHasUidPrefix(savedArticleId, auth),
           Or3(And3(B3(resource # NoDoc), UidIs(auth, resource, "userId")),
               And3(B3(reqres # NoDoc), UidIs(auth, reqres, "userId")))))

SavedArticlesList(auth) == Authed(auth)

SavedArticlesAdmin(auth, users) ==
  And3(And3(Authed(auth), UserExists(users, auth)), RoleIs(users, auth, "admin"))

SavedArticlesAllow(op, auth, savedArticleId, resource, reqres, users) ==
  \/ SavedArticlesOwner(auth, savedArticleId, resource, reqres) = "T"
  \/ op = "list" /\ SavedArticlesList(auth) = "T"
  \/ SavedArticlesAdmin(auth, users) = "T"

(***************************************************************************)
(* match /notifications/{notificationId}                                   *)
(***************************************************************************)
NotificationsOwner(auth, resource) ==
  And3(Authed(auth), UidIs(auth, resource, "userId"))

\* Mutant: the create rule without the admin branch.
NotificationsCreate_SelfOnly(auth, reqres, users) ==
  And3(Authed(auth), UidIs(auth, reqres, "userId"))

NotificationsCreate(auth, reqres, users) ==
  And3(Authed(auth),
       Or3(RoleIs(users, auth, "admin"), UidIs(auth, reqres, "userId")))

NotificationsReadAdmin(auth, users) ==
  And3(And3(Authed(auth), UserExists(users, auth)), RoleIs(users, auth, "admin"))

NotificationsAllow(op, auth, resource, reqres, users) ==
  \/ IsRead(op) /\ NotificationsOwner(auth, resource) = "T"
  \/ op \in {"update", "delete"} /\ NotificationsOwner(auth, resource) = "T"
  \/ op = "create" /\ NotificationsCreate(auth, reqres, users) = "T"
  \/ IsRead(op) /\ NotificationsReadAdmin(auth, users) = "T"

(***************************************************************************)
(* match /userActivity/{activityId}                                        *)
(***************************************************************************)
UserActivityCreate(auth) == Authed(auth)

UserActivityRead(auth, resource, users) ==
  And3(Authed(auth),
       Or3(UidIs(auth, resource, "userId"), RoleIs(users, auth, "admin")))

UserActivityAllow(op, auth, resource, reqres, users) ==
  \/ op = "create" /\ UserActivityCreate(auth) = "T"
  \/ IsRead(op) /\ UserActivityRead(auth, resource, users) = "T"

(***************************************************************************)
(* service cloud.firestore: the decision for one request.  resource is the *)
(* stored document (NoDoc when there is none), reqres the document the     *)
(* write would leave (NoDoc for get, list and delete).                     *)
(***************************************************************************)
RuleAllows(c, op, auth, id, resource, reqres, users) ==
  CASE c = "articles" -> ArticlesAllow(op, auth, resource, reqres, users)
    [] c = "writerRequests" -> WriterRequestsAllow(op, auth, resource, reqres, users)
    [] c = "users" -> UsersAllow(op, auth, id, resource, reqres, users)
    [] c = "savedArticles" -> SavedArticlesAllow(op, auth, id, resource, reqres, users)
    [] c = "notifications" -> NotificationsAllow(op, auth, resource, reqres, users)
    [] c = "userActivity" -> UserActivityAllow(op, auth, resource, reqres, users)

\* The decision for a request against the database as it stands.
Allowed(c, op, auth, id, reqres) ==
  RuleAllows(c, op, auth, id, db[c][id], reqres, db.users)

(***************************************************************************)
(* The database under rule-permitted requests.  A denied request changes   *)
(* nothing; last is the request granted by the latest step, with the       *)
(* caller's stored role at the moment it was authorized.                   *)
(***************************************************************************)
NoRequest ==
  [coll |-> "none", op |-> "none", auth |-> NoAuth, id |-> "none",
   res |-> NoDoc, role |-> "none"]

Granted(c, op, auth, id, reqres) ==
  [coll |-> c, op |-> op, auth |-> auth, id |-> id, res |-> reqres,
   role |-> StoredRole(db.users, auth)]

\* The number of documents outside the users collection.
NumDocs ==
  Cardinality({p \in UNION {{<<c, i>> : i \in Ids(c)} : c \in Collections \ {"users"}} :
                 db[p[1]][p[2]] # NoDoc})

\* No batch object under the key; no batch running.
NoBatch == 0

\* The dashboard is not mounted and the batch processor has not been used.
UtilIdle ==
  /\ srv = [c \in {"articles", "users", "writerRequests"} |-> 0]
  /\ subs = <<>>
  /\ dashMounted = FALSE
  /\ dashboardData = Null
  /\ dashLoading = TRUE
  /\ dataCache = Null
  /\ batches = NoBatch
  /\ heap = <<>>
  /\ timers = {}
  /\ timerBatch = <<>>
  /\ running = NoBatch
  /\ calls = <<>>
  /\ added = 0

RulesInit ==
  /\ db = [c \in Collections |-> [i \in Ids(c) |-> NoDoc]]
  /\ last = NoRequest
  /\ mounted = FALSE /\ authReady = FALSE /\ signedOut = FALSE
  /\ user = NoUser /\ userProfile = Null /\ permissions = Null
  /\ loading = TRUE /\ profileLoading = FALSE
  /\ storage = EmptyStorage
  /\ loads = <<>> /\ snapDue = FALSE
  /\ now = 0
  /\ UtilIdle

Get(c, auth, id) ==
  /\ Allowed(c, "get", auth, id, NoDoc)
  /\ last' = Granted(c, "get", auth, id, NoDoc)
  /\ UNCHANGED <<db, authVars, utilVars>>

List(c, auth, id) ==
  /\ Allowed(c, "list", auth, id, NoDoc)
  /\ last' = Granted(c, "list", auth, id, NoDoc)
  /\ UNCHANGED <<db, authVars, utilVars>>

Create(c, auth, id, d) ==
  /\ db[c][id] = NoDoc
  /\ c # "users" => NumDocs < MaxDocs
  /\ Allowed(c, "create", auth, id, d)
  /\ db' = [db EXCEPT ![c][id] = d]
  /\ last' = Granted(c, "create", auth, id, d)
  /\ UNCHANGED <<authVars, utilVars>>

Update(c, auth, id, d) ==
  /\ db[c][id] # NoDoc
  /\ Allowed(c, "update", auth, id, d)
  /\ db' = [db EXCEPT ![c][id] = d]
  /\ last' = Granted(c, "update", auth, id, d)
  /\ UNCHANGED <<authVars, utilVars>>

Delete(c, auth, id) ==
  /\ Allowed(c, "delete", auth, id, NoDoc)
  /\ db' = [db EXCEPT ![c][id] = NoDoc]
  /\ last' = Granted(c, "delete", auth, id, NoDoc)
  /\ UNCHANGED <<authVars, utilVars>>

RulesNext ==
  \E c \in Collections, auth \in Callers :
    \E id \in Ids(c) :
      \/ Get(c, auth, id)
      \/ List(c, auth, id)
      \/ \E d \in Docs(c) : Create(c, auth, id, d)
      \/ \E d \in Docs(c) : Update(c, auth, id, d)
      \/ Delete(c, auth, id)

SpecRules == RulesInit /\ [][RulesNext]_vars

(***************************************************************************)
(* Helpers of the properties.                                              *)
(***************************************************************************)
\* The documents a request of kind op can propose.
ReqDocs(c, op) == IF op \in {"create", "update"} THEN Docs(c) ELSE {NoDoc}

\* create needs the document absent, update needs it present.
Applicable(c, op, id) ==
  /\ op = "create" => db[c][id] = NoDoc
  /\ op = "update" => db[c][id] # NoDoc

HasValue(doc, f, v) == doc # NoDoc /\ f \in DOMAIN doc /\ doc[f] = v

Rank(r) == CASE r = "admin" -> 2 [] r = "infowriter" -> 1 [] OTHER -> 0

(***************************************************************************)
(* C1: along every sequence of rule-permitted operations on users, a       *)
(* user's role is raised (absent/user -> infowriter or admin, infowriter   *)
(* -> admin) only by a request whose caller's stored role was admin when   *)
(* the request was authorized.                                             *)
(***************************************************************************)
C1_RoleRaisedOnlyByAdmin ==
  [][\A u \in Uids :
       Rank(StoredRole(db'.users, u)) > Rank(StoredRole(db.users, u))
         => last'.role = "admin"]_vars

(***************************************************************************)
(* C2: an update of users/{u} by caller u whose stored role is not admin   *)
(* is denied when the proposed document carries a role different from the  *)
(* stored one, and allowed when it has no role field or the same role.     *)
(***************************************************************************)
C2_SelfUpdateKeepsRole ==
  \A u \in Uids, d \in UserDocs :
    (db.users[u] # NoDoc /\ StoredRole(db.users, u) # "admin") =>
      LET old == db.users[u]
          noRole == "role" \notin DOMAIN d
          sameRole == /\ "role" \in DOMAIN d
                      /\ "role" \in DOMAIN old
                      /\ d.role = old.role
      IN  Allowed("users", "update", u, u, d) <=> (noRole \/ sameRole)

\* A non-admin has just updated their own profile, and a self-update that
\* would make them admin is denied.
C2_Witness ==
  /\ last.coll = "users" /\ last.op = "update"
  /\ last.auth = last.id /\ last.role # "admin"
  /\ StoredRole(db.users, last.auth) # "admin"
  /\ ~Allowed("users", "update", last.auth, last.auth, [role |-> "admin"])

(***************************************************************************)
(* C3: savedArticles/U1_A1 can be created, updated and deleted by U1 even  *)
(* when no document carries a userId, and no write to it by a non-admin    *)
(* caller other than U1 is allowed, whatever the stored and the proposed   *)
(* document hold.                                                          *)
(***************************************************************************)
U1Writes ==
  \A op \in {"create", "update", "delete"} :
    \A d \in ReqDocs("savedArticles", op) :
      Applicable("savedArticles", op, "U1_A1") =>
        Allowed("savedArticles", op, "U1", "U1_A1", d)

C3_OnlyPrefixOwnerWrites ==
  /\ U1Writes
  /\ ~(/\ last.coll = "savedArticles" /\ last.id = "U1_A1"
       /\ IsWrite(last.op)
       /\ last.auth # "U1" /\ last.role # "admin")

\* C3 as amended: U1 can always write it, and a non-admin caller other than
\* U1 can write it exactly when the stored or the proposed document names
\* that caller in userId.
C3_PrefixOrUserIdOwnerWrites ==
  /\ U1Writes
  /\ \A op \in {"create", "update", "delete"} :
       \A d \in ReqDocs("savedArticles", op) :
         \A u \in Uids \ {"U1"} :
           (StoredRole(db.users, u) # "admin"
              /\ Applicable("savedArticles", op, "U1_A1")) =>
             (Allowed("savedArticles", op, u, "U1_A1", d)
                <=> \/ HasValue(db.savedArticles["U1_A1"], "userId", u)
                    \/ HasValue(d, "userId", u))

\* U1 has created U1_A1 with no userId field while U2 is a non-admin.
C3_Witness ==
  /\ last.coll = "savedArticles" /\ last.op = "create"
  /\ last.auth = "U1" /\ last.res = NoFields
  /\ db.users["U2"] # NoDoc /\ StoredRole(db.users, "U2") # "admin"

(***************************************************************************)
(* C4: a read of an article that is not published is denied to the         *)
(* unauthenticated caller and to every caller who is neither its author    *)
(* nor an admin; a read of a published article is allowed to everyone.     *)
(***************************************************************************)
C4_UnpublishedUnreadable ==
  \A id \in Ids("articles"), auth \in Callers, op \in {"get", "list"} :
    LET a == db.articles[id]
        published == HasValue(a, "status", "published")
        owner == HasValue(a, "authorId", auth)
    IN  a # NoDoc =>
          /\ published => Allowed("articles", op, auth, id, NoDoc)
          /\ (~published
                /\ (auth = NoAuth
                      \/ (~owner /\ StoredRole(db.users, auth) # "admin")))
               => ~Allowed("articles", op, auth, id, NoDoc)

\* An unpublished article has just been read (by its author or an admin)
\* while a signed-up user who is neither exists.
C4_Witness ==
  /\ last.coll = "articles" /\ last.op = "get"
  /\ ~HasValue(db.articles[last.id], "status", "published")
  /\ \E u \in Uids :
       /\ db.users[u] # NoDoc
       /\ StoredRole(db.users, u) # "admin"
       /\ ~HasValue(db.articles[last.id], "authorId", u)

(***************************************************************************)
(* C5: creating an article is allowed exactly when the caller is           *)
(* authenticated, has stored role infowriter or admin, and the proposed    *)
(* authorId is the caller's uid (also for an admin).                       *)
(***************************************************************************)
C5_CreateOwnArticleOnly ==
  \A id \in Ids("articles"), auth \in Callers, d \in ArticleDocs :
    db.articles[id] = NoDoc =>
      (Allowed("articles", "create", auth, id, d)
         <=> /\ auth # NoAuth
             /\ StoredRole(db.users, auth) \in {"infowriter", "admin"}
             /\ HasValue(d, "authorId", auth))

\* An admin has created an article (as its author), and a further create
\* by that admin for another authorId would be denied.
C5_Witness ==
  /\ last.coll = "articles" /\ last.op = "create" /\ last.role = "admin"
  /\ HasValue(db.articles[last.id], "authorId", last.auth)
  /\ \E v \in Uids \ {last.auth} :
       ~RuleAllows("articles", "create", last.auth, last.id, NoDoc,
                   [authorId |-> v, status |-> "draft"], db.users)

(***************************************************************************)
(* C6: update and delete of an article are allowed exactly when the caller *)
(* is authenticated and is the stored authorId or has stored role admin,   *)
(* whatever the proposed document holds.                                   *)
(***************************************************************************)
C6_UpdateDeleteOwnerOrAdmin ==
  \A id \in Ids("articles"), auth \in Callers, op \in {"update", "delete"} :
    \A d \in ReqDocs("articles", op) :
      db.articles[id] # NoDoc =>
        (Allowed("articles", op, auth, id, d)
           <=> /\ auth # NoAuth
               /\ \/ HasValue(db.articles[id], "authorId", auth)
                  \/ StoredRole(db.users, auth) = "admin")

\* An admin who is not the author has updated an article.
C6_Witness ==
  /\ last.coll = "articles" /\ last.op = "update" /\ last.role = "admin"
  /\ db.articles[last.id] # NoDoc
  /\ ~HasValue(db.articles[last.id], "authorId", last.auth)

(***************************************************************************)
(* C7: an unauthenticated caller is denied every create, update, delete    *)
(* and list in every collection; the only request granted to it is a read  *)
(* of a published article.                                                 *)
(***************************************************************************)
C7_UnauthenticatedGetsPublishedOnly ==
  (last.coll # "none" /\ last.auth = NoAuth) =>
    /\ last.op \notin {"create", "update", "delete", "list"}
    /\ last.coll = "articles" /\ IsRead(last.op)
    /\ HasValue(db.articles[last.id], "status", "published")

\* C7 as amended: an unauthenticated caller is denied every create, update
\* and delete, and every get and list except the get or list of a
\* published article.
C7_UnauthenticatedReadsPublishedOnly ==
  /\ \A c \in Collections, op \in Ops :
       \A id \in Ids(c), d \in ReqDocs(c, op) :
         Allowed(c, op, NoAuth, id, d) =>
           /\ c = "articles" /\ IsRead(op)
           /\ HasValue(db.articles[id], "status", "published")
  /\ (last.coll # "none" /\ last.auth = NoAuth) =>
       /\ last.coll = "articles" /\ IsRead(last.op)
       /\ HasValue(db.articles[last.id], "status", "published")

\* The unauthenticated caller has listed a published article.
C7_Witness ==
  /\ last.coll = "articles" /\ last.op = "list" /\ last.auth = NoAuth
  /\ HasValue(db.articles[last.id], "status", "published")

(***************************************************************************)
(* AuthContext.tsx: the session permission cache.                          *)
(***************************************************************************)
\* The uid that signs in on this client.
Me == "U1"

\* Mutant: an infowriter may also edit any article.
generatePermissions_WriterEditsAny(role) ==
  [canCreateArticles |-> role \in {"admin", "infowriter"},
   canManageUsers |-> role = "admin",
   canAccessAdmin |-> role = "admin",
   canEditAnyArticle |-> role \in {"admin", "infowriter"},
   canDeleteArticles |-> role = "admin",
   canApproveWriters |-> role = "admin",
   canViewAnalytics |-> role = "admin",
   dashboardRoute |-> "/dashboard"]

generatePermissions(role) ==
  LET basePermissions ==
        [canCreateArticles |-> FALSE,
         canManageUsers |-> FALSE,
         canAccessAdmin |-> FALSE,
         canEditAnyArticle |-> FALSE,
         canDeleteArticles |-> FALSE,
         canApproveWriters |-> FALSE,
         canViewAnalytics |-> FALSE,
         dashboardRoute |-> "/dashboard"]
  IN  CASE role = "admin" ->
             [canCreateArticles |-> TRUE,
              canManageUsers |-> TRUE,
              canAccessAdmin |-> TRUE,
              canEditAnyArticle |-> TRUE,
              canDeleteArticles |-> TRUE,
              canApproveWriters |-> TRUE,
              canViewAnalytics |-> TRUE,
              dashboardRoute |-> "/dashboard"]
        [] role = "infowriter" ->
             [basePermissions EXCEPT !.canCreateArticles = TRUE,
                                     !.canEditAnyArticle = FALSE,
                                     !.canViewAnalytics = FALSE,
                                     !.dashboardRoute = "/dashboard"]
        [] OTHER ->
             [basePermissions EXCEPT !.dashboardRoute = "/dashboard"]

\* JSON.stringify and JSON.parse of the values the cache holds: a profile
\* keeps uid and role, the permissions keep their eight fields.
JSONstringify(v) == [json |-> v]
JSONparse(item) == item.json

\* clearCache(): removes the three keys.
clearCache(st) == EmptyStorage

\* CACHE_EXPIRY, 5 * 60 * 1000 ms, in minutes.
CACHE_EXPIRY == 5

\* Date.now().toString() and parseInt of it: the stamp is kept as an item.
toString(t) == <<t>>
parseInt(item) == item[1]

\* setCachedData(key, data) at time t: stores the item and stamps the cache.
setCachedData(st, key, data, t) ==
  [st EXCEPT ![key] = JSONstringify(data), !.updated = toString(t)]

\* Mutant: the cache expires as soon as its age reaches CACHE_EXPIRY.
CacheExpired_AtExpiry(st, t) == t - parseInt(st.updated) >= CACHE_EXPIRY

\* cacheAge > CACHE_EXPIRY, for a cache that holds a stamp, read at time t.
CacheExpired(st, t) == t - parseInt(st.updated) > CACHE_EXPIRY

\* getCachedData(key) at time t: the value returned.
getCachedData(st, key, t) ==
  IF st[key] = Null \/ st.updated = NoItem THEN Null
  ELSE IF CacheExpired(st, t) THEN Null
  ELSE JSONparse(st[key])

\* localStorage after getCachedData(key) at time t: an expired cache is cleared.
getCachedDataStorage(st, key, t) ==
  IF st[key] # Null /\ st.updated # NoItem /\ CacheExpired(st, t)
  THEN clearCache(st)
  ELSE st

\* The profile built from a users document: role is data.role || 'user'.
ProfileOf(uid, data) ==
  [uid |-> uid, role |-> IF "role" \in DOMAIN data THEN data.role ELSE "user"]

\* The users documents this client's own document ranges over.
ServerRoles == Roles \cup {"editor"}
ServerDocs == {NoDoc, NoFields} \cup [role : ServerRoles]

\* What a previous session, which stored its profile at time 0, can have
\* left in localStorage.
StoredBy(uid, role) ==
  setCachedData(setCachedData(EmptyStorage, "profile", [uid |-> uid, role |-> role], 0),
                "permissions", generatePermissions(role), 0)

\* The page is loaded just before, at, or just after the expiry of a cache
\* stamped at time 0; within a session the stamps are not read again.
PageLoadTimes == {CACHE_EXPIRY - 1, CACHE_EXPIRY, CACHE_EXPIRY + 1}
PreviousStorage == {EmptyStorage} \cup {StoredBy(u, r) : u \in Uids, r \in Roles}

\* The state after useState: nothing mounted yet.
AuthInit ==
  /\ db \in {[[c \in Collections |-> [i \in Ids(c) |-> NoDoc]]
               EXCEPT !.users[Me] = d] : d \in ServerDocs}
  /\ last = NoRequest
  /\ mounted = FALSE /\ authReady = FALSE /\ signedOut = FALSE
  /\ user = NoUser /\ userProfile = Null /\ permissions = Null
  /\ loading = TRUE /\ profileLoading = FALSE
  /\ storage \in PreviousStorage
  /\ loads = <<>> /\ snapDue = FALSE
  /\ now \in PageLoadTimes
  /\ UtilIdle

\* The "Initialize from cache" effect.
Mount ==
  /\ ~mounted
  /\ mounted' = TRUE
  /\ LET cachedProfile == getCachedData(storage, "profile", now)
         st1 == getCachedDataStorage(storage, "profile", now)
         cachedPermissions == getCachedData(st1, "permissions", now)
         st2 == getCachedDataStorage(st1, "permissions", now)
     IN  /\ storage' = st2
         /\ IF cachedProfile # Null /\ cachedPermissions # Null
            THEN userProfile' = cachedProfile /\ permissions' = cachedPermissions
            ELSE UNCHANGED <<userProfile, permissions>>
  /\ UNCHANGED <<utilVars, now, db, last, authReady, signedOut, user, loading, profileLoading,
                 loads, snapDue>>

\* A loadUserProfile call that has started: where it waits and what getDoc read.
NewLoad(origin) == [pc |-> "reload", origin |-> origin, snap |-> NoDoc]

Remove(seq, i) == SubSeq(seq, 1, i - 1) \o SubSeq(seq, i + 1, Len(seq))

\* Mutant: the listener also drops the stale cache when a user signs in.
AuthStateChanged_SignInClearsCache(firebaseUser) ==
  /\ mounted
  /\ firebaseUser # user \/ ~authReady
  /\ authReady' = TRUE
  /\ user' = firebaseUser
  /\ storage' = clearCache(storage)
  /\ IF firebaseUser # NoUser
     THEN /\ Len(loads) < MaxLoads
          /\ loading' = TRUE
          /\ profileLoading' = TRUE
          /\ loads' = Append(loads, NewLoad("auth"))
          /\ snapDue' = TRUE
          /\ signedOut' = FALSE
          /\ UNCHANGED <<userProfile, permissions>>
     ELSE /\ userProfile' = Null
          /\ permissions' = Null
          /\ loading' = FALSE
          /\ snapDue' = FALSE
          /\ signedOut' = TRUE
          /\ UNCHANGED <<profileLoading, loads>>
  /\ UNCHANGED <<utilVars, now, db, last, mounted>>

\* The auth-state listener, up to its first await (or to its end, signed out).
\* The profile subscription effect follows user: it unsubscribes, and
\* subscribes to users/{uid}, which delivers a first snapshot.
AuthStateChanged(firebaseUser) ==
  /\ mounted
  /\ firebaseUser # user \/ ~authReady
  /\ authReady' = TRUE
  /\ user' = firebaseUser
  /\ IF firebaseUser # NoUser
     THEN /\ Len(loads) < MaxLoads
          /\ loading' = TRUE
          /\ profileLoading' = TRUE
          /\ loads' = Append(loads, NewLoad("auth"))
          /\ snapDue' = TRUE
          /\ signedOut' = FALSE
          /\ UNCHANGED <<userProfile, permissions, storage>>
     ELSE /\ userProfile' = Null
          /\ permissions' = Null
          /\ storage' = clearCache(storage)
          /\ loading' = FALSE
          /\ snapDue' = FALSE
          /\ signedOut' = TRUE
          /\ UNCHANGED <<profileLoading, loads>>
  /\ UNCHANGED <<utilVars, now, db, last, mounted>>

\* refreshProfile(), up to the first await of loadUserProfile.
RefreshProfile ==
  /\ mounted
  /\ user # NoUser
  /\ Len(loads) < MaxLoads
  /\ storage' = clearCache(storage)
  /\ profileLoading' = TRUE
  /\ loads' = Append(loads, NewLoad("refresh"))
  /\ UNCHANGED <<utilVars, now, db, last, mounted, authReady, signedOut, user, userProfile,
                 permissions, loading, snapDue>>

\* firebaseUser.reload() resolves; getDoc is issued.
ReloadDone(i) ==
  /\ i \in 1..Len(loads)
  /\ loads[i].pc = "reload"
  /\ loads' = [loads EXCEPT ![i].pc = "getDoc"]
  /\ UNCHANGED <<utilVars, now, db, last, mounted, authReady, signedOut, user, userProfile,
                 permissions, loading, profileLoading, storage, snapDue>>

\* The server reads users/{uid} for getDoc, as the signed-in caller.
GetDocServed(i) ==
  /\ i \in 1..Len(loads)
  /\ loads[i].pc = "getDoc"
  /\ UsersRead(IF user = NoUser THEN NoAuth ELSE user) = "T"
  /\ loads' = [loads EXCEPT ![i].pc = "fetched", ![i].snap = db.users[Me]]
  /\ UNCHANGED <<utilVars, now, db, last, mounted, authReady, signedOut, user, userProfile,
                 permissions, loading, profileLoading, storage, snapDue>>

\* The end of a loadUserProfile call: finally, then what its caller does next.
LoadEnds(i) ==
  /\ profileLoading' = FALSE
  /\ loading' = IF loads[i].origin = "auth" THEN FALSE ELSE loading
  /\ loads' = Remove(loads, i)

\* getDoc resolves: the try block from profileSnap.exists() on.
GetDocResolved(i) ==
  /\ i \in 1..Len(loads)
  /\ loads[i].pc = "fetched"
  /\ IF loads[i].snap # NoDoc
     THEN LET profile == ProfileOf(Me, loads[i].snap)
              userPermissions == generatePermissions(profile.role)
          IN  /\ storage' = setCachedData(setCachedData(storage, "profile", profile, now),
                                          "permissions", userPermissions, now)
              /\ userProfile' = profile
              /\ permissions' = userPermissions
     ELSE /\ userProfile' = Null
          /\ permissions' = Null
          /\ storage' = clearCache(storage)
  /\ LoadEnds(i)
  /\ UNCHANGED <<utilVars, now, db, last, mounted, authReady, signedOut, user, snapDue>>

\* Mutant: the catch block resets the state and leaves the cache.
LoadFails_KeepsCache(i) ==
  /\ i \in 1..Len(loads)
  /\ loads[i].pc \in {"reload", "getDoc"}
  /\ userProfile' = Null
  /\ permissions' = Null
  /\ LoadEnds(i)
  /\ UNCHANGED <<utilVars, now, db, last, mounted, authReady, signedOut, user, snapDue,
                 storage>>

\* reload() or getDoc rejects: the catch block.
LoadFails(i) ==
  /\ i \in 1..Len(loads)
  /\ loads[i].pc \in {"reload", "getDoc"}
  /\ userProfile' = Null
  /\ permissions' = Null
  /\ storage' = clearCache(storage)
  /\ LoadEnds(i)
  /\ UNCHANGED <<utilVars, now, db, last, mounted, authReady, signedOut, user, snapDue>>

\* Mutant: the callback sets the new profile and leaves the permissions.
OnSnapshot_ProfileOnly ==
  /\ user # NoUser
  /\ snapDue
  /\ snapDue' = FALSE
  /\ IF db.users[user] # NoDoc
     THEN /\ userProfile' = ProfileOf(user, db.users[user])
          /\ storage' = setCachedData(storage, "profile", userProfile', now)
     ELSE UNCHANGED <<storage, userProfile>>
  /\ UNCHANGED <<utilVars, now, db, last, mounted, authReady, signedOut, user, loading,
                 profileLoading, loads, permissions>>

\* The onSnapshot callback of the profile subscription.
OnSnapshot ==
  /\ user # NoUser
  /\ snapDue
  /\ snapDue' = FALSE
  /\ IF db.users[user] # NoDoc
     THEN LET profile == ProfileOf(user, db.users[user])
              userPermissions == generatePermissions(profile.role)
          IN  /\ storage' = setCachedData(setCachedData(storage, "profile", profile, now),
                                          "permissions", userPermissions, now)
              /\ userProfile' = profile
              /\ permissions' = userPermissions
     ELSE UNCHANGED <<storage, userProfile, permissions>>
  /\ UNCHANGED <<utilVars, now, db, last, mounted, authReady, signedOut, user, loading,
                 profileLoading, loads>>

\* Someone the rules permit (or the console) writes this client's users
\* document; the subscription, if any, is sent the new document.
ServerWrite(d) ==
  /\ d # db.users[Me]
  /\ db' = [db EXCEPT !.users[Me] = d]
  /\ snapDue' = (user # NoUser)
  /\ UNCHANGED <<utilVars, now, last, mounted, authReady, signedOut, user, userProfile,
                 permissions, loading, profileLoading, storage, loads>>

AuthNext ==
  \/ Mount
  \/ \E u \in {NoUser, Me} : AuthStateChanged(u)
  \/ RefreshProfile
  \/ \E i \in 1..MaxLoads : ReloadDone(i)
  \/ \E i \in 1..MaxLoads : GetDocServed(i)
  \/ \E i \in 1..MaxLoads : GetDocResolved(i)
  \/ \E i \in 1..MaxLoads : LoadFails(i)
  \/ OnSnapshot
  \/ \E d \in ServerDocs : ServerWrite(d)

SpecAuth == AuthInit /\ [][AuthNext]_vars

(***************************************************************************)
(* C8: generatePermissions returns the row of the permission table for     *)
(* every role: admin has the seven flags true, infowriter only             *)
(* canCreateArticles, user and any other or missing role none; the         *)
(* dashboardRoute is '/dashboard' in every case.                           *)
(***************************************************************************)
RoleInputs == ServerRoles \cup {"undefined"}

PermissionTable(role) ==
  [canCreateArticles |-> role \in {"admin", "infowriter"},
   canManageUsers |-> role = "admin",
   canAccessAdmin |-> role = "admin",
   canEditAnyArticle |-> role = "admin",
   canDeleteArticles |-> role = "admin",
   canApproveWriters |-> role = "admin",
   canViewAnalytics |-> role = "admin",
   dashboardRoute |-> "/dashboard"]

C8_PermissionsFollowTable ==
  /\ \A r \in RoleInputs : generatePermissions(r) = PermissionTable(r)
  /\ (userProfile # Null /\ permissions # Null)
       => permissions = PermissionTable(userProfile.role)

\* The permissions of a role outside the three have been derived from the
\* signed-in user's document, and are the all-false row.
C8_Witness ==
  /\ user = Me /\ userProfile # Null /\ permissions # Null
  /\ userProfile.role = "editor"
  /\ ~permissions.canCreateArticles /\ ~permissions.canAccessAdmin
  /\ permissions.dashboardRoute = "/dashboard"

(***************************************************************************)
(* C9: in every state of the auth context, userProfile and permissions     *)
(* are both null, or permissions is generatePermissions(userProfile.role): *)
(* no handler leaves a new profile with old permissions, or permissions    *)
(* without a profile.                                                      *)
(***************************************************************************)
C9_ProfileAndPermissionsAgree ==
  \/ userProfile = Null /\ permissions = Null
  \/ /\ userProfile # Null /\ permissions # Null
     /\ permissions = generatePermissions(userProfile.role)

\* The subscription callback has replaced the profile while a profile load
\* is still waiting: the profile shows a role no cache and no finished load
\* supplied, and the permissions have changed with it.
C9_Witness ==
  /\ user = Me /\ ~snapDue
  /\ Len(loads) = 1 /\ loads[1].pc = "reload" /\ loads[1].origin = "auth"
  /\ userProfile # Null /\ userProfile.role = "admin"
  /\ permissions # Null /\ permissions.canAccessAdmin
  /\ storage.profile # Null /\ JSONparse(storage.profile).role = "admin"

(***************************************************************************)
(* C10: once the auth-state listener has processed a sign-out, userProfile *)
(* and permissions are null and none of the three cache keys is present,   *)
(* for as long as no user is signed in, whatever profile loads are still   *)
(* in flight.                                                              *)
(***************************************************************************)
C10_SignedOutStaysCleared ==
  (signedOut /\ user = NoUser) =>
    /\ userProfile = Null
    /\ permissions = Null
    /\ storage = EmptyStorage

(***************************************************************************)
(* C11: a loadUserProfile call that cannot obtain the profile (reload or   *)
(* getDoc rejects, or users/{uid} does not exist) ends with userProfile    *)
(* and permissions null, the three cache keys removed and profileLoading   *)
(* false, whatever was held before.                                        *)
(***************************************************************************)
\* A call in flight that ends without a profile when it ends now.
FailedLoad(l) ==
  \/ l.pc \in {"reload", "getDoc"}
  \/ l.pc = "fetched" /\ l.snap = NoDoc

C11_FailedLoadClearsEverything ==
  [][\A i \in 1..Len(loads) :
       (loads' = Remove(loads, i) /\ FailedLoad(loads[i]))
         => /\ userProfile' = Null
            /\ permissions' = Null
            /\ storage' = EmptyStorage
            /\ profileLoading' = FALSE]_vars

\* The admin's snapshot has been processed, no call is in flight, and nothing
\* of the admin's profile is left: a failed load has wiped it.
C11_Witness ==
  /\ user = Me /\ ~snapDue /\ loads = <<>>
  /\ StoredRole(db.users, Me) = "admin"
  /\ userProfile = Null /\ permissions = Null /\ storage = EmptyStorage
  /\ ~profileLoading

(***************************************************************************)
(* C12: while a loadUserProfile call started by the auth-state listener or *)
(* by refreshProfile has not ended, the context's loading flag             *)
(* (loading || profileLoading) is true.                                    *)
(***************************************************************************)
contextLoading == loading \/ profileLoading

C12_LoadingWhileFetchPending == Len(loads) > 0 => contextLoading

(***************************************************************************)
(* C13 as stated: every write to the cached profile and permissions state  *)
(* (userProfile, permissions, the three cache keys) is made by the         *)
(* subscription callback, and no two writers have writes pending at once.  *)
(***************************************************************************)
CachedState == <<userProfile, permissions, storage>>

C14_CacheExpiresAfterFiveMinutes ==
  [][(~mounted /\ mounted')
       => \A key \in {"profile", "permissions"} :
            storage.updated # NoItem
              => LET age == now - parseInt(storage.updated)
                 IN  /\ age > 5
                          => /\ getCachedData(storage, key, now) = Null
                             /\ storage' = EmptyStorage
                             /\ UNCHANGED <<userProfile, permissions>>
                     /\ (age =< 5 /\ storage[key] # Null)
                          => /\ getCachedData(storage, key, now) = storage[key].json
                             /\ storage' = storage
                             /\ userProfile' = storage.profile.json
                             /\ permissions' = storage.permissions.json]_vars

\* The effect has restored a profile whose stamp is exactly 5 minutes old.
C14_Witness ==
  /\ mounted /\ ~authReady
  /\ userProfile # Null /\ permissions # Null
  /\ storage.updated # NoItem
  /\ now - parseInt(storage.updated) = 5

(***************************************************************************)
(* C15: a writerRequests document is created only by an authenticated      *)
(* caller whose uid is the proposed userId, read only by its owner or an   *)
(* admin, updated only by an admin (never by a non-admin owner), and       *)
(* deleted by nobody.                                                      *)
(***************************************************************************)
C15_WriterRequestsPolicy ==
  \A id \in Ids("writerRequests"), auth \in Callers, op \in Ops :
    \A d \in ReqDocs("writerRequests", op) :
      LET resource == db.writerRequests[id]
          callerIsAdmin == StoredRole(db.users, auth) = "admin"
      IN  Allowed("writerRequests", op, auth, id, d)
            <=> /\ auth # NoAuth
                /\ op = "create" => HasValue(d, "userId", auth)
                /\ IsRead(op) => HasValue(resource, "userId", auth) \/ callerIsAdmin
                /\ op = "update" => callerIsAdmin
                /\ op # "delete"

\* An admin has updated the request of a caller who is not an admin, and who
\* is therefore denied the update of their own request.
C15_Witness ==
  /\ last.coll = "writerRequests" /\ last.op = "update" /\ last.role = "admin"
  /\ \E u \in Uids \ {last.auth} :
       /\ HasValue(db.writerRequests[last.id], "userId", u)
       /\ StoredRole(db.users, u) # "admin"

(***************************************************************************)
(* C16: a notification is updated and deleted only by the authenticated    *)
(* caller whose uid is its stored userId (an admin who is not the owner is *)
(* denied), read only by its owner or an admin, and created exactly when   *)
(* the caller has role admin or the proposed userId is the caller's uid.   *)
(***************************************************************************)
C16_NotificationsPolicy ==
  \A id \in Ids("notifications"), auth \in Callers, op \in Ops :
    \A d \in ReqDocs("notifications", op) :
      LET resource == db.notifications[id]
          callerIsAdmin == StoredRole(db.users, auth) = "admin"
      IN  Allowed("notifications", op, auth, id, d)
            <=> /\ auth # NoAuth
                /\ op \in {"update", "delete"} => HasValue(resource, "userId", auth)
                /\ IsRead(op) => HasValue(resource, "userId", auth) \/ callerIsAdmin
                /\ op = "create" => callerIsAdmin \/ HasValue(d, "userId", auth)

\* An admin has created a notification for another user, and is denied its
\* update and its delete.
C16_Witness ==
  /\ last.coll = "notifications" /\ last.op = "create" /\ last.role = "admin"
  /\ \E u \in Uids \ {last.auth} : HasValue(db.notifications[last.id], "userId", u)
  /\ ~Allowed("notifications", "delete", last.auth, last.id, NoDoc)
  /\ \A d \in Docs("notifications") :
       ~Allowed("notifications", "update", last.auth, last.id, d)

(***************************************************************************)
(* C17 as stated: a request the rules deny is denied again in every later  *)
(* state in which the caller's stored role and the target document's       *)
(* ownership fields (authorId, userId) are unchanged.                      *)
(***************************************************************************)
\* The decision on a request against the database d_b.
AllowedIn(d_b, c, op, auth, id, reqres) ==
  RuleAllows(c, op, auth, id, d_b[c][id], reqres, d_b.users)

Field(doc, f) == IF f \in DOMAIN doc THEN doc[f] ELSE "absent"
Ownership(doc) == <<Field(doc, "authorId"), Field(doc, "userId")>>

C17_DeniedWhileRoleAndOwnerUnchanged ==
  [][db' # db =>
       \A c \in Collections, op \in Ops, auth \in Callers :
         \A id \in Ids(c), d \in ReqDocs(c, op) :
           (/\ ~AllowedIn(db, c, op, auth, id, d)
            /\ StoredRole(db'.users, auth) = StoredRole(db.users, auth)
            /\ Ownership(db'[c][id]) = Ownership(db[c][id]))
             => ~AllowedIn(db', c, op, auth, id, d)]_vars

(***************************************************************************)
(* C17, amended: the decision on a request is determined by the request,   *)
(* the caller's stored role, and the target document's ownership fields    *)
(* and status, so a denied request is denied again in every later state in *)
(* which these are unchanged; and every change of a document is made by a  *)
(* write request the rules allowed.                                        *)
(***************************************************************************)
\* What the amended claim lets a decision depend on: of the target, the
\* ownership fields and the status; of the users collection, the caller's
\* stored role.
Kept(doc) ==
  LET fs == DOMAIN doc \cap {"authorId", "userId", "status"}
  IN  IF fs = {} THEN NoDoc ELSE [f \in fs |-> doc[f]]

KeptUsers(auth) ==
  [u \in Uids |->
     IF u = auth /\ StoredRole(db.users, auth) # "none"
     THEN [role |-> StoredRole(db.users, auth)]
     ELSE NoDoc]

KeptResource(c, auth, id) ==
  IF c = "users" THEN KeptUsers(auth)[id] ELSE Kept(db[c][id])

DecisionFollowsKept ==
  \A c \in Collections, auth \in Callers :
    LET users == KeptUsers(auth)
    IN  \A id \in Ids(c) :
          LET resource == KeptResource(c, auth, id)
          IN  \A op \in Ops :
                \A d \in ReqDocs(c, op) :
                  Allowed(c, op, auth, id, d)
                    <=> RuleAllows(c, op, auth, id, resource, d, users)

ChangesAreAllowedWrites ==
  db' # db =>
    /\ IsWrite(last'.op)
    /\ AllowedIn(db, last'.coll, last'.op, last'.auth, last'.id, last'.res)
    /\ \A c \in Collections :
         \A id \in Ids(c) :
           db'[c][id] # db[c][id] => c = last'.coll /\ id = last'.id

C17_DecisionFollowsRoleOwnerStatus ==
  []DecisionFollowsKept /\ [][ChangesAreAllowedWrites]_vars

\* A non-author without the admin role is denied the read of a draft whose
\* author then publishes it: the same read is now allowed.
C17_Witness ==
  /\ last.coll = "articles" /\ last.op = "update"
  /\ HasValue(db.articles[last.id], "status", "published")
  /\ HasValue(db.articles[last.id], "authorId", last.auth)
  /\ \E u \in Uids \ {last.auth} :
       /\ StoredRole(db.users, u) # "admin"
       /\ Allowed("articles", "get", u, last.id, NoDoc)

(***************************************************************************)
(* C18: an article is created with authorId equal to the uid of its        *)
(* creator, and no update the rules permit, by the author or by an admin,  *)
(* changes its authorId.                                                   *)
(***************************************************************************)
C18_AuthorIdIsCreatorForever ==
  [][\A id \in Ids("articles") :
       LET before == db.articles[id]
           after == db'.articles[id]
       IN  /\ (before = NoDoc /\ after # NoDoc)
                => HasValue(after, "authorId", last'.auth)
           /\ (before # NoDoc /\ after # NoDoc)
                => Field(after, "authorId") = Field(before, "authorId")]_vars

(***************************************************************************)
(* C19: once the subscription callback has processed the snapshot that     *)
(* carries the signed-in user's stored role r, the in-memory and the       *)
(* cached permissions equal generatePermissions(r), and they keep that     *)
(* value until the stored role changes again or the user signs out,        *)
(* whatever loadUserProfile calls were in flight.                          *)
(***************************************************************************)
\* The role the snapshot of users/{uid} carries.
SnapshotRole == ProfileOf(Me, db.users[Me]).role

\* The callback has processed the snapshot of the stored document.
SnapshotProcessed == user = Me /\ ~snapDue /\ db.users[Me] # NoDoc

PermissionsAre(r) ==
  /\ permissions = generatePermissions(r)
  /\ storage.permissions # Null
  /\ JSONparse(storage.permissions) = generatePermissions(r)

C19_SnapshotPermissionsPersist ==
  [][/\ (user = Me /\ snapDue /\ SnapshotProcessed')
          => PermissionsAre(SnapshotRole)'
     /\ (/\ SnapshotProcessed /\ PermissionsAre(SnapshotRole)
         /\ db' = db /\ user' = user /\ Len(loads') =< Len(loads))
          => PermissionsAre(SnapshotRole)']_vars

(***************************************************************************)
(* The role flags of the context.                                          *)
(***************************************************************************)
isAdmin == IF permissions = Null THEN FALSE ELSE permissions.canAccessAdmin

\* Mutant: the writer flag without the admin exclusion.
isInfoWriter_CanCreate ==
  IF permissions = Null THEN FALSE ELSE permissions.canCreateArticles

isInfoWriter ==
  IF permissions = Null
  THEN FALSE
  ELSE permissions.canCreateArticles /\ ~permissions.canAccessAdmin

isUser == IF userProfile = Null THEN FALSE ELSE userProfile.role = "user"

(***************************************************************************)
(* C20: isAdmin is true exactly when userProfile.role is 'admin',          *)
(* isInfoWriter exactly when it is 'infowriter', isUser exactly when it is *)
(* 'user'; at most one flag is true, and all are false without a profile.  *)
(***************************************************************************)
C20_RoleFlagsFollowProfile ==
  LET role == IF userProfile = Null THEN "none" ELSE userProfile.role
  IN  /\ isAdmin <=> role = "admin"
      /\ isInfoWriter <=> role = "infowriter"
      /\ isUser <=> role = "user"
      /\ Cardinality({f \in {"admin", "infowriter", "user"} :
                        \/ f = "admin" /\ isAdmin
                        \/ f = "infowriter" /\ isInfoWriter
                        \/ f = "user" /\ isUser}) =< 1
      /\ userProfile = Null => ~isAdmin /\ ~isInfoWriter /\ ~isUser

\* An admin is signed in: the permissions grant article creation, and the
\* writer flag is false all the same.
C20_Witness ==
  /\ user = Me /\ userProfile # Null /\ userProfile.role = "admin"
  /\ permissions.canCreateArticles
  /\ isAdmin /\ ~isInfoWriter /\ ~isUser

(***************************************************************************)
(* canEditArticle(authorId); an article without authorId passes undefined. *)
(***************************************************************************)
\* Mutant: only the author may edit, the canEditAnyArticle branch is dropped.
canEditArticle_OwnOnly(authorId) ==
  IF userProfile = Null \/ permissions = Null
  THEN FALSE
  ELSE userProfile.uid = authorId

canEditArticle(authorId) ==
  IF userProfile = Null \/ permissions = Null
  THEN FALSE
  ELSE userProfile.uid = authorId \/ permissions.canEditAnyArticle

(***************************************************************************)
(* C21: for a signed-in caller whose cached profile (uid and role) is the  *)
(* one the stored users document gives, and for every article,             *)
(* canEditArticle(article.authorId) is true exactly when the rules allow   *)
(* that caller to update the article; without a profile or without         *)
(* permissions canEditArticle is false.                                    *)
(***************************************************************************)
\* The cached profile is the profile of the signed-in user's stored document.
ProfileInSync ==
  /\ user # NoUser
  /\ db.users[user] # NoDoc
  /\ userProfile = ProfileOf(user, db.users[user])
  /\ permissions # Null

C21_CanEditMatchesUpdateRule ==
  /\ ProfileInSync =>
       \A article \in ArticleDocs, d \in ArticleDocs :
         canEditArticle(Field(article, "authorId"))
           <=> RuleAllows("articles", "update", user, "A1", article, d, db.users)
  /\ (userProfile = Null \/ permissions = Null) =>
       \A authorId \in Uids \cup {"absent"} : ~canEditArticle(authorId)

\* An admin in sync with the server may edit, and update, another user's
\* article; an in-sync infowriter may not.
C21_Witness ==
  /\ ProfileInSync /\ ~snapDue /\ loads = <<>>
  /\ userProfile.role = "admin"
  /\ canEditArticle("U2")
  /\ RuleAllows("articles", "update", user, "A1", [authorId |-> "U2"],
                [authorId |-> "U2"], db.users)

(***************************************************************************)
(* C22: whenever the context holds a signed-in user and a userProfile,     *)
(* userProfile.uid is user.uid, also right after the mount from the cache  *)
(* and while the profile load of a sign-in is pending.                     *)
(***************************************************************************)
C22_ProfileBelongsToUser ==
  (user # NoUser /\ userProfile # Null) => userProfile.uid = user

(***************************************************************************)
(* AdminDashboard: the data-loading effect and its nested subscriptions.   *)
(* A query result is known by its version; a subscription that is due is   *)
(* handed the current result when its callback runs.                       *)
(***************************************************************************)
DashCollections == {"articles", "users", "writerRequests"}

\* onSnapshot(query, callback): a new subscription, its first snapshot due.
\* The callback of a nested subscription closes over what the enclosing
\* callbacks computed.
ArticlesSub == [coll |-> "articles", due |-> TRUE]
UsersSub(a) == [coll |-> "users", articles |-> a, due |-> TRUE]
WriterRequestsSub(a, u) ==
  [coll |-> "writerRequests", articles |-> a, users |-> u, due |-> TRUE]

\* DataCache.get(key); whether the entry has outlived its ttl is an input.
DataCacheGet(isExpired) ==
  IF dataCache = Null \/ isExpired THEN Null ELSE dataCache.data

\* The cache after DataCache.get(key): an expired entry is deleted.
DataCacheAfterGet(isExpired) ==
  IF dataCache # Null /\ isExpired THEN Null ELSE dataCache

\* DataCache.set(key, data, ttl)
DataCacheSet(data) == [data |-> data]

DashInit ==
  /\ db = [c \in Collections |-> [i \in Ids(c) |-> NoDoc]]
  /\ last = NoRequest
  /\ mounted = FALSE /\ authReady = FALSE /\ signedOut = FALSE
  /\ user = NoUser /\ permissions = Null
  /\ userProfile \in {Null, [uid |-> Me, role |-> "admin"]}
  /\ loading = TRUE /\ profileLoading = FALSE
  /\ storage = EmptyStorage
  /\ loads = <<>> /\ snapDue = FALSE
  /\ now = 0
  /\ UtilIdle

\* The effect body: the cached data, then the articles subscription.
DashEffect(isExpired) ==
  /\ ~dashMounted
  /\ userProfile # Null
  /\ Len(subs) < MaxSubs
  /\ dashMounted' = TRUE
  /\ LET cachedData == DataCacheGet(isExpired)
     IN  /\ dataCache' = DataCacheAfterGet(isExpired)
         /\ IF cachedData # Null
            THEN dashboardData' = cachedData /\ dashLoading' = FALSE
            ELSE UNCHANGED <<dashboardData, dashLoading>>
  /\ subs' = Append(subs, ArticlesSub)
  /\ UNCHANGED <<srv, db, last, authVars, batchVars>>

\* The effect's cleanup: unsubscribeArticles().
DashCleanup ==
  /\ dashMounted
  /\ dashMounted' = FALSE
  /\ subs' = SelectSeq(subs, LAMBDA x : x.coll # "articles")
  /\ UNCHANGED <<srv, dashboardData, dashLoading, dataCache, db, last, authVars,
                 batchVars>>

\* The result of a query changes; its subscriptions are sent the new result.
QueryResultChanges(c) ==
  /\ srv[c] < MaxVer
  /\ srv' = [srv EXCEPT ![c] = @ + 1]
  /\ subs' = [i \in 1..Len(subs) |->
               IF subs[i].coll = c THEN [subs[i] EXCEPT !.due = TRUE] ELSE subs[i]]
  /\ UNCHANGED <<dashMounted, dashboardData, dashLoading, dataCache, db, last,
                 authVars, batchVars>>

\* The articles callback: it subscribes to users; the cleanup it returns is
\* dropped by onSnapshot.
OnArticlesSnapshot(i) ==
  /\ i \in 1..Len(subs)
  /\ subs[i].coll = "articles" /\ subs[i].due
  /\ Len(subs) < MaxSubs
  /\ subs' = Append([subs EXCEPT ![i].due = FALSE], UsersSub(srv.articles))
  /\ UNCHANGED <<srv, dashMounted, dashboardData, dashLoading, dataCache, db, last,
                 authVars, batchVars>>

\* The users callback: it subscribes to the pending writerRequests.
OnUsersSnapshot(i) ==
  /\ i \in 1..Len(subs)
  /\ subs[i].coll = "users" /\ subs[i].due
  /\ Len(subs) < MaxSubs
  /\ subs' = Append([subs EXCEPT ![i].due = FALSE],
                    WriterRequestsSub(subs[i].articles, srv.users))
  /\ UNCHANGED <<srv, dashMounted, dashboardData, dashLoading, dataCache, db, last,
                 authVars, batchVars>>

\* The writerRequests callback: newData, setDashboardData, DataCache.set.
OnWriterRequestsSnapshot(i) ==
  /\ i \in 1..Len(subs)
  /\ subs[i].coll = "writerRequests" /\ subs[i].due
  /\ LET newData == [articles |-> subs[i].articles,
                     users |-> subs[i].users,
                     writerRequests |-> srv.writerRequests]
     IN  /\ dashboardData' = newData
         /\ dataCache' = DataCacheSet(newData)
         /\ dashLoading' = FALSE
  /\ subs' = [subs EXCEPT ![i].due = FALSE]
  /\ UNCHANGED <<srv, dashMounted, db, last, authVars, batchVars>>

DashNext ==
  \/ \E isExpired \in BOOLEAN : DashEffect(isExpired)
  \/ DashCleanup
  \/ \E c \in DashCollections : QueryResultChanges(c)
  \/ \E i \in 1..MaxSubs : OnArticlesSnapshot(i)
  \/ \E i \in 1..MaxSubs : OnUsersSnapshot(i)
  \/ \E i \in 1..MaxSubs : OnWriterRequestsSnapshot(i)

SpecDash == DashInit /\ [][DashNext]_vars

\* The live subscriptions on a collection.
LiveSubs(c) == {i \in 1..Len(subs) : subs[i].coll = c}

(***************************************************************************)
(* C23: after the effect's cleanup no subscription of the effect is live   *)
(* (so no callback runs or sets dashboard state), and while the effect is  *)
(* active at most one subscription per collection is live.                 *)
(***************************************************************************)
C23_SubscriptionsCancelledAndBounded ==
  /\ ~dashMounted => subs = <<>>
  /\ \A c \in DashCollections : Cardinality(LiveSubs(c)) =< 1

(***************************************************************************)
(* C24: once no snapshot is due, dashboardData and the DataCache entry are *)
(* computed from the latest result of each of the three queries.           *)
(***************************************************************************)
Quiescent == \A i \in 1..Len(subs) : ~subs[i].due

C24_DataFromLatestSnapshots ==
  (dashMounted /\ Len(subs) > 0 /\ Quiescent)
    => /\ dashboardData = srv
       /\ dataCache # Null /\ dataCache.data = srv

(***************************************************************************)
(* BatchProcessor.addToBatch on one batch key. Items are numbered in the   *)
(* order they are added; a process timer is known by the number of the     *)
(* call that set it. The empty timer set for a new batch does nothing when *)
(* it fires and is left out.                                               *)
(***************************************************************************)
BatchInit ==
  /\ db = [c \in Collections |-> [i \in Ids(c) |-> NoDoc]]
  /\ last = NoRequest
  /\ mounted = FALSE /\ authReady = FALSE /\ signedOut = FALSE
  /\ user = NoUser /\ userProfile = Null /\ permissions = Null
  /\ loading = TRUE /\ profileLoading = FALSE
  /\ storage = EmptyStorage
  /\ loads = <<>> /\ snapDue = FALSE
  /\ now = 0
  /\ UtilIdle

\* addToBatch(batchKey, item, processor, delay); it may be called by a
\* processor that is running.
AddToBatch ==
  /\ added < MaxAdds
  /\ LET item == added + 1
         existing == batches
         batch == IF existing # NoBatch THEN existing ELSE Len(heap) + 1
         pushed == IF existing # NoBatch
                   THEN [heap EXCEPT ![existing].items = Append(@, item)]
                   ELSE Append(heap, [items |-> <<item>>, timeout |-> 0])
         cleared == IF existing # NoBatch
                    THEN timers \ {heap[existing].timeout}
                    ELSE timers
         timeout == Len(timerBatch) + 1
     IN  /\ batches' = batch
         /\ heap' = [pushed EXCEPT ![batch].timeout = timeout]
         /\ timers' = cleared \cup {timeout}
         /\ timerBatch' = Append(timerBatch, batch)
         /\ added' = item
  /\ UNCHANGED <<running, calls, db, last, authVars, dashVars>>

\* A process timer fires: processor(batch.items) is called.
TimerFires(t) ==
  /\ t \in timers
  /\ running = NoBatch
  /\ timers' = timers \ {t}
  /\ calls' = Append(calls, heap[timerBatch[t]].items)
  /\ running' = timerBatch[t]
  /\ UNCHANGED <<batches, heap, timerBatch, added, db, last, authVars, dashVars>>

\* The processor returns: this.batches.delete(batchKey).
ProcessorReturns ==
  /\ running # NoBatch
  /\ batches' = NoBatch
  /\ running' = NoBatch
  /\ UNCHANGED <<heap, timers, timerBatch, calls, added, db, last, authVars,
                 dashVars>>

\* The processor throws: the timer callback ends before the delete.
ProcessorThrows ==
  /\ running # NoBatch
  /\ running' = NoBatch
  /\ UNCHANGED <<batches, heap, timers, timerBatch, calls, added, db, last,
                 authVars, dashVars>>

BatchNext ==
  \/ AddToBatch
  \/ \E t \in 1..MaxAdds : TimerFires(t)
  \/ ProcessorReturns
  \/ ProcessorThrows

SpecBatch == BatchInit /\ [][BatchNext]_vars

RECURSIVE Flatten(_)
Flatten(seqs) == IF seqs = <<>> THEN <<>> ELSE Head(seqs) \o Flatten(Tail(seqs))

\* The items numbered from + 1 to from + n, in order.
ItemsAfter(from, n) == [i \in 1..n |-> from + i]

(***************************************************************************)
(* C25: every added item is passed to a processor exactly once and in the  *)
(* order added; between processor calls the key holds exactly the items    *)
(* not yet delivered under a single pending timer (each addition restarts  *)
(* the delay, the items are delivered together), and once nothing is       *)
(* pending every item has been delivered and the key has no batch.         *)
(***************************************************************************)
C25_EachItemOnceInOrder ==
  LET delivered == Flatten(calls)
  IN  /\ delivered = ItemsAfter(0, Len(delivered))
      /\ running = NoBatch =>
           IF timers = {}
           THEN batches = NoBatch /\ Len(delivered) = added
           ELSE /\ batches # NoBatch
                /\ timers = {heap[batches].timeout}
                /\ heap[batches].items
                     = ItemsAfter(Len(delivered), added - Len(delivered))

====
